---- MODULE Spec2Model ----
(***************************************************************************)
(* Project verification workflow of the CNergy platform:                   *)
(* docs/ARCHITECTURE.md, section "8. Workflow Service" (workflowStates and *)
(* transitionProjectStatus), the Project model of section 4 and the        *)
(* document upload controller of section 5 and the document generation    *)
(* controller of section 7; and the Dashboard page of the client,          *)
(* client/src/pages/Dashboard.js.                                          *)
(*                                                                         *)
(* transitionProjectStatus is an async Express handler.  Each await is a   *)
(* point where other handlers run, so one request is four steps:           *)
(*   FindById  (await Project.findById(..).populate('documents'))          *)
(*   Validate  (the synchronous code up to the call of project.save())     *)
(*   Save      (await project.save())                                      *)
(*   Notify    (await createNotification(..)) followed by res.json(..)     *)
(* A handler that sends its response is gone; response keeps the last      *)
(* response sent, with the request it answers.                             *)
(* req.body and req.user are fixed when the request arrives and nothing    *)
(* reads them before Validate, which is where the model draws them.        *)
(* The clock is read by new Date() only.  It is counted in arrivals of     *)
(* requests: handlers that run their checks with no arrival in between     *)
(* read the same time, a handler that runs them after a later arrival      *)
(* reads a later time.                                                     *)
(***************************************************************************)
EXTENDS Integers, Sequences, FiniteSets, TLC

----------------------------------------------------------------------------
(* Bounds *)

\* number of transition requests accepted over a run
MaxRequests == 3

\* number of documents generated over a run
MaxGenerated == 1

----------------------------------------------------------------------------
(* The values requests are drawn from *)

\* handlers that can be in flight at the same time
Handlers == {"r1", "r2"}

\* req.params.projectId
ProjectIds == {"p1", "p2"}

\* req.user.id of the authenticated caller (never the owner of p1)
Users == {"u2"}

\* project.owner
owner == [p \in ProjectIds |-> IF p = "p1" THEN "u1" ELSE "u2"]

\* req.body.comment
Comments == {"ok"}

\* keys of workflowStates
States ==
    {"draft", "in-progress", "submitted", "validated", "registered",
     "monitoring", "verification", "verified", "issuance", "issued"}

\* req.body.newStatus: any key of workflowStates, or a string that is none
NewStatuses == States \cup {"archived"}

\* req.body.documentType of the uploads
UploadTypes ==
    {"project-design-document", "supporting-documentation", "validation-report"}

----------------------------------------------------------------------------
(* workflowStates *)

workflowStates ==
    [s \in States |->
        CASE s = "draft" ->
               [name |-> "Draft",
                allowedTransitions |-> <<"in-progress">>,
                requiredDocuments |-> <<>>]
          [] s = "in-progress" ->
               [name |-> "In Progress",
                allowedTransitions |-> <<"submitted", "draft">>,
                requiredDocuments |-> <<"project-design-document">>]
          [] s = "submitted" ->
               [name |-> "Submitted for Validation",
                allowedTransitions |-> <<"in-progress", "validated">>,
                requiredDocuments |->
                    <<"project-design-document", "supporting-documentation">>]
          [] s = "validated" ->
               [name |-> "Validated",
                allowedTransitions |-> <<"registered">>,
                requiredDocuments |-> <<"validation-report">>]
          [] s = "registered" ->
               [name |-> "Registered",
                allowedTransitions |-> <<"monitoring">>,
                requiredDocuments |-> <<"registration-proof">>]
          [] s = "monitoring" ->
               [name |-> "Monitoring",
                allowedTransitions |-> <<"verification">>,
                requiredDocuments |-> <<"monitoring-report">>]
          [] s = "verification" ->
               [name |-> "Under Verification",
                allowedTransitions |-> <<"verified", "monitoring">>,
                requiredDocuments |-> <<"verification-report">>]
          [] s = "verified" ->
               [name |-> "Verified",
                allowedTransitions |-> <<"issuance", "monitoring">>,
                requiredDocuments |-> <<"verification-statement">>]
          [] s = "issuance" ->
               [name |-> "Issuance Requested",
                allowedTransitions |-> <<"issued", "verified">>,
                requiredDocuments |-> <<"issuance-request">>]
          [] OTHER ->
               [name |-> "Credits Issued",
                allowedTransitions |-> <<"monitoring">>,
                requiredDocuments |-> <<"issuance-confirmation">>]]

\* a lookup that compares the first element only
includes_firstOnly(arr, x) == Len(arr) > 0 /\ arr[1] = x

\* Array.prototype.includes
includes(arr, x) == \E i \in 1..Len(arr) : arr[i] = x

\* ProjectSchema.status: the enum validator and the default
StatusEnum == {"draft", "in-progress", "submitted", "verified"}

StatusDefault == "draft"

----------------------------------------------------------------------------
(* State *)

VARIABLES
    projects,       \* Project collection: _id -> [status, statusHistory]
    documents,      \* Document collection: set of [projectId, documentType]
    req,            \* the handlers in flight
    response,       \* the last response sent and the request it answers
    notifications,  \* the events handed to createNotification, in order
    now,            \* the wall clock
    accepted,       \* number of requests accepted so far
    gen,            \* the generateDocument handler in flight
    created,        \* GeneratedDocument collection: _ids 1..created
    generatedDocuments, \* Project collection: _id -> generatedDocuments
    dashboard       \* the state of the Dashboard page in the browser

vars == <<projects, documents, req, response, notifications, now, accepted,
          gen, created, generatedDocuments, dashboard>>

\* the state that only generateDocument writes
generation == <<gen, created, generatedDocuments>>

\* a handler slot with no request
NoProject == [status |-> "", statusHistory |-> <<>>, documents |-> {}]

NoResponse ==
    [code |-> 0, message |-> "", missingDocuments |-> <<>>,
     status |-> "", statusHistory |-> <<>>]

NoState == [name |-> "", allowedTransitions |-> <<>>, requiredDocuments |-> <<>>]

Idle ==
    [pc |-> "idle", projectId |-> "", newStatus |-> "", user |-> "",
     comment |-> "", project |-> NoProject, currentState |-> NoState,
     error |-> "", res |-> NoResponse]

\* the generateDocument handler with no request
GenIdle ==
    [pc |-> "idle", projectId |-> "", project |-> NoProject,
     newDocument |-> 0]

\* useState(null)
null == "null"

\* Dashboard as first rendered: the initial values of the four useState
\* calls; the effect has not run yet
firstRender ==
    [pc |-> "rendered",
     projects |-> <<>>,
     stats |-> [totalProjects |-> 0, documentsGenerated |-> 0,
                creditsEstimated |-> 0, projectsInProgress |-> 0],
     loading |-> TRUE,
     error |-> null]

\* new Project({...}): status takes the schema default
newProject == [status |-> StatusDefault, statusHistory |-> <<>>]

\* the projects of the collection
Projects == DOMAIN projects

\* the handler slots of the server
Reqs == DOMAIN req

\* the collection holds one project; the other identifier finds nothing
Init ==
    /\ projects = [p \in {"p1"} |-> newProject]
    /\ documents = {}
    /\ req = [r \in Handlers |-> Idle]
    /\ response = Idle
    /\ notifications = <<>>
    /\ now = 0
    /\ accepted = 0
    /\ gen = GenIdle
    /\ created = 0
    /\ generatedDocuments = [p \in {"p1"} |-> <<>>]
    /\ dashboard = firstRender

----------------------------------------------------------------------------
(* transitionProjectStatus *)

\* res.status(code).json(body); the fields a body does not have stay empty
json(code, message, missingDocuments, status, statusHistory) ==
    [code |-> code, message |-> message, missingDocuments |-> missingDocuments,
     status |-> status, statusHistory |-> statusHistory]

\* a response as it is kept: the request and what was sent, without the
\* locals of the handler
sent(request, error, res) ==
    [request EXCEPT !.pc = "done", !.error = error, !.res = res,
                    !.project = NoProject, !.currentState = NoState]

\* the catch block: every exception becomes the same 500 response
caught(request, error) ==
    sent(request, error,
         json(500, "Error updating project status", <<>>, "", <<>>))

\* handler r sends a response and is gone
Responds(r, answer) ==
    /\ req' = [req EXCEPT ![r] = Idle]
    /\ response' = answer

\* Project.findById(projectId).populate('documents')
findById(projectId) ==
    IF projectId \in Projects
    THEN [status |-> projects[projectId].status,
          statusHistory |-> projects[projectId].statusHistory,
          documents |-> {doc \in documents : doc.projectId = projectId}]
    ELSE NoProject

\* variant: the result of findById is used without the test for null, so
\* that reading project.status throws
FindById_noNullCheck(r) ==
    /\ req[r].pc = "idle"
    /\ accepted < MaxRequests
    /\ \E projectId \in ProjectIds :
          LET entered == [req[r] EXCEPT !.projectId = projectId]
          IN  \/ /\ projectId \notin Projects
                 /\ Responds(r, caught(entered, "TypeError"))
              \/ /\ projectId \in Projects
                 /\ req' = [req EXCEPT ![r] =
                              [entered EXCEPT
                                 !.pc = "found",
                                 !.project = findById(projectId)]]
                 /\ UNCHANGED response
              \/ Responds(r, caught(entered, "findById"))
    /\ accepted' = accepted + 1
    /\ now' = now + 1
    /\ UNCHANGED <<projects, documents, notifications, generation, dashboard>>

\* the handler is entered and awaits the project
FindById(r) ==
    /\ req[r].pc = "idle"
    /\ accepted < MaxRequests
    /\ \E projectId \in ProjectIds :
          LET entered == [req[r] EXCEPT !.projectId = projectId]
          IN  \/ /\ projectId \notin Projects
                 /\ Responds(r, sent(entered, "",
                                     json(404, "Project not found",
                                          <<>>, "", <<>>)))
              \/ /\ projectId \in Projects
                 /\ req' = [req EXCEPT ![r] =
                              [entered EXCEPT
                                 !.pc = "found",
                                 !.project = findById(projectId)]]
                 /\ UNCHANGED response
              \/ Responds(r, caught(entered, "findById"))
    /\ accepted' = accepted + 1
    /\ now' = now + 1
    /\ UNCHANGED <<projects, documents, notifications, generation, dashboard>>

\* variant: the check only asks whether newStatus is a workflow state
isAllowed_anyState(project, newStatus) == newStatus \in States

\* the check as it would be if a project could always stay where it is
isAllowed_orSame(project, newStatus) ==
    \/ newStatus = project.status
    \/ includes(workflowStates[project.status].allowedTransitions, newStatus)

\* currentState.allowedTransitions.includes(newStatus)
isAllowed(project, newStatus) ==
    includes(workflowStates[project.status].allowedTransitions, newStatus)

\* variant: any document of the project counts for any required type
hasDocument_anyType(project, requiredDoc) == project.documents # {}

\* project.documents.some(doc => doc.documentType === requiredDoc)
hasDocument(project, requiredDoc) ==
    \E doc \in project.documents : doc.documentType = requiredDoc

\* variant: once a type is missing, every required type is reported
missingDocumentsOf_allRequired(project, newStatus) ==
    IF \E i \in 1..Len(workflowStates[newStatus].requiredDocuments) :
          ~hasDocument(project, workflowStates[newStatus].requiredDocuments[i])
    THEN workflowStates[newStatus].requiredDocuments
    ELSE <<>>

\* the loop that fills missingDocuments, in the order of requiredDocuments
missingDocumentsOf(project, newStatus) ==
    SelectSeq(workflowStates[newStatus].requiredDocuments,
              LAMBDA requiredDoc : ~hasDocument(project, requiredDoc))

\* variant: the record is pushed without the comment of the request
updated_noComment(project, newStatus, timestamp, user, comment) ==
    [project EXCEPT
        !.status = newStatus,
        !.statusHistory =
            Append(@, [status |-> newStatus, timestamp |-> timestamp,
                       updatedBy |-> user, comment |-> ""])]

\* project.status = newStatus; project.statusHistory.push({...})
updated(project, newStatus, timestamp, user, comment) ==
    [project EXCEPT
        !.status = newStatus,
        !.statusHistory =
            Append(@, [status |-> newStatus, timestamp |-> timestamp,
                       updatedBy |-> user, comment |-> comment])]

\* variant: the documents of the target are checked before the transition
Validate_documentsFirst(r) ==
    /\ req[r].pc = "found"
    /\ \E newStatus \in NewStatuses, user \in Users, comment \in Comments :
          LET project == req[r].project
              entered == [req[r] EXCEPT !.newStatus = newStatus,
                                        !.user = user, !.comment = comment]
          IN  IF /\ newStatus \in States
                 /\ Len(missingDocumentsOf(project, newStatus)) > 0
              THEN Responds(r,
                        sent(entered, "",
                             json(400,
                                  "Missing required documents for this transition",
                                  missingDocumentsOf(project, newStatus),
                                  "", <<>>)))
              ELSE IF ~isAllowed(project, newStatus)
              THEN Responds(r,
                        sent(entered, "",
                             json(400,
                                  "Cannot transition from " \o project.status
                                      \o " to " \o newStatus,
                                  <<>>, "", <<>>)))
              ELSE /\ req' = [req EXCEPT ![r] =
                        [entered EXCEPT
                            !.pc = "save",
                            !.currentState = workflowStates[project.status],
                            !.project = updated(project, newStatus, now,
                                                user, comment)]]
                   /\ UNCHANGED response
    /\ UNCHANGED <<projects, documents, notifications, now,
                   accepted, generation, dashboard>>

\* variant: the entry of the target is read before the transition is
\* checked, which throws for a target that has none
Validate_targetFirst(r) ==
    /\ req[r].pc = "found"
    /\ \E newStatus \in NewStatuses, user \in Users, comment \in Comments :
          LET project == req[r].project
              entered == [req[r] EXCEPT !.newStatus = newStatus,
                                        !.user = user, !.comment = comment]
          IN  IF newStatus \notin States
              THEN Responds(r, caught(entered, "TypeError"))
              ELSE IF ~isAllowed(project, newStatus)
              THEN Responds(r,
                        sent(entered, "",
                             json(400,
                                  "Cannot transition from " \o project.status
                                      \o " to " \o newStatus,
                                  <<>>, "", <<>>)))
              ELSE /\ req' = [req EXCEPT ![r] =
                        [entered EXCEPT
                            !.pc = "save",
                            !.currentState = workflowStates[project.status],
                            !.project = updated(project, newStatus, now,
                                                user, comment)]]
                   /\ UNCHANGED response
    /\ UNCHANGED <<projects, documents, notifications, now,
                   accepted, generation, dashboard>>

\* the synchronous code between the two awaits
Validate(r) ==
    /\ req[r].pc = "found"
    /\ \E newStatus \in NewStatuses, user \in Users, comment \in Comments :
          LET project == req[r].project
              entered == [req[r] EXCEPT !.newStatus = newStatus,
                                        !.user = user, !.comment = comment]
          IN  IF ~isAllowed(project, newStatus)
              THEN Responds(r,
                        sent(entered, "",
                             json(400,
                                  "Cannot transition from " \o project.status
                                      \o " to " \o newStatus,
                                  <<>>, "", <<>>)))
              ELSE IF Len(missingDocumentsOf(project, newStatus)) > 0
              THEN Responds(r,
                        sent(entered, "",
                             json(400,
                                  "Missing required documents for this transition",
                                  missingDocumentsOf(project, newStatus),
                                  "", <<>>)))
              ELSE /\ req' = [req EXCEPT ![r] =
                        [entered EXCEPT
                            !.pc = "save",
                            !.currentState = workflowStates[project.status],
                            !.project = updated(project, newStatus, now,
                                                user, comment)]]
                   /\ UNCHANGED response
    /\ UNCHANGED <<projects, documents, notifications, now,
                   accepted, generation, dashboard>>

\* variant: the pushed record is not written
saved_statusOnly(stored, project) ==
    [stored EXCEPT !.status = project.status]

\* the write of project.save(): the modified path status is set and the
\* pushed record is appended to the stored array
saved(stored, project) ==
    [stored EXCEPT
        !.status = project.status,
        !.statusHistory =
            Append(@, project.statusHistory[Len(project.statusHistory)])]

\* variant: status and statusHistory are written one after the other and
\* the driver may throw between the two writes
Save_torn(r) ==
    /\ req[r].pc = "save"
    /\ \/ /\ req[r].project.status \in StatusEnum
          /\ projects' = [projects EXCEPT ![req[r].projectId] =
                              saved(@, req[r].project)]
          /\ req' = [req EXCEPT ![r].pc = "notify"]
          /\ UNCHANGED response
       \/ /\ req[r].project.status \notin StatusEnum
          /\ Responds(r, caught(req[r], "ValidationError"))
          /\ UNCHANGED projects
       \/ /\ req[r].project.status \in StatusEnum
          /\ projects' = [projects EXCEPT ![req[r].projectId].status =
                              req[r].project.status]
          /\ Responds(r, caught(req[r], "save"))
    /\ UNCHANGED <<documents, notifications, now, accepted,
                   generation, dashboard>>

\* variant: a failed save is not noticed and the handler goes on to notify
Save_errorIgnored(r) ==
    /\ req[r].pc = "save"
    /\ \/ /\ req[r].project.status \in StatusEnum
          /\ projects' = [projects EXCEPT ![req[r].projectId] =
                              saved(@, req[r].project)]
          /\ req' = [req EXCEPT ![r].pc = "notify"]
          /\ UNCHANGED response
       \/ /\ req[r].project.status \notin StatusEnum
          /\ Responds(r, caught(req[r], "ValidationError"))
          /\ UNCHANGED projects
       \/ /\ req' = [req EXCEPT ![r].pc = "notify"]
          /\ UNCHANGED <<projects, response>>
    /\ UNCHANGED <<documents, notifications, now, accepted,
                   generation, dashboard>>

\* variant: the save writes the populated documents of the loaded project
\* back, so that a document uploaded since the load is lost
Save_writesDocuments(r) ==
    /\ req[r].pc = "save"
    /\ \/ /\ req[r].project.status \in StatusEnum
          /\ projects' = [projects EXCEPT ![req[r].projectId] =
                              saved(@, req[r].project)]
          /\ documents' =
                {doc \in documents : doc.projectId # req[r].projectId}
                   \cup req[r].project.documents
          /\ req' = [req EXCEPT ![r].pc = "notify"]
          /\ UNCHANGED response
       \/ /\ req[r].project.status \notin StatusEnum
          /\ Responds(r, caught(req[r], "ValidationError"))
          /\ UNCHANGED <<projects, documents>>
       \/ /\ Responds(r, caught(req[r], "save"))
          /\ UNCHANGED <<projects, documents>>
    /\ UNCHANGED <<notifications, now, accepted, generation, dashboard>>

\* variant: the write is not restricted to the project of the request
Save_everyProject(r) ==
    /\ req[r].pc = "save"
    /\ \/ /\ req[r].project.status \in StatusEnum
          /\ projects' = [p \in Projects |->
                              saved(projects[p], req[r].project)]
          /\ req' = [req EXCEPT ![r].pc = "notify"]
          /\ UNCHANGED response
       \/ /\ req[r].project.status \notin StatusEnum
          /\ Responds(r, caught(req[r], "ValidationError"))
          /\ UNCHANGED projects
       \/ /\ Responds(r, caught(req[r], "save"))
          /\ UNCHANGED projects
    /\ UNCHANGED <<documents, notifications, now, accepted,
                   generation, dashboard>>

\* variant: a rejected save is not caught, so that no response is sent
Save_uncaught(r) ==
    /\ req[r].pc = "save"
    /\ \/ /\ req[r].project.status \in StatusEnum
          /\ projects' = [projects EXCEPT ![req[r].projectId] =
                              saved(@, req[r].project)]
          /\ req' = [req EXCEPT ![r].pc = "notify"]
       \/ /\ req[r].project.status \notin StatusEnum
          /\ req' = [req EXCEPT ![r].pc = "rejected"]
          /\ UNCHANGED projects
       \/ /\ req' = [req EXCEPT ![r].pc = "rejected"]
          /\ UNCHANGED projects
    /\ UNCHANGED <<documents, response, notifications, now, accepted,
                   generation, dashboard>>

\* await project.save(): the schema validates status, then the write happens
\* or the driver throws
Save(r) ==
    /\ req[r].pc = "save"
    /\ \/ /\ req[r].project.status \in StatusEnum
          /\ projects' = [projects EXCEPT ![req[r].projectId] =
                              saved(@, req[r].project)]
          /\ req' = [req EXCEPT ![r].pc = "notify"]
          /\ UNCHANGED response
       \/ /\ req[r].project.status \notin StatusEnum
          /\ Responds(r, caught(req[r], "ValidationError"))
          /\ UNCHANGED projects
       \/ /\ Responds(r, caught(req[r], "save"))
          /\ UNCHANGED projects
    /\ UNCHANGED <<documents, notifications, now, accepted,
                   generation, dashboard>>

\* the argument of createNotification
notification(r) ==
    [type |-> "status-change",
     projectId |-> req[r].projectId,
     userId |-> owner[req[r].projectId],
     message |-> "Project status changed to "
                    \o workflowStates[req[r].newStatus].name,
     data |-> [newStatus |-> req[r].newStatus,
               previousStatus |-> req[r].currentState.name]]

\* variant: the catch block undoes the transition when the notification fails
Notify_rollback(r) ==
    /\ req[r].pc = "notify"
    /\ notifications' = Append(notifications, notification(r))
    /\ \/ /\ Responds(r, sent(req[r], "",
                                  json(200, "", <<>>,
                                       req[r].project.status,
                                       req[r].project.statusHistory)))
          /\ UNCHANGED projects
       \/ /\ Responds(r, caught(req[r], "createNotification"))
          /\ projects' = [projects EXCEPT ![req[r].projectId] =
                [status |-> IF Len(@.statusHistory) = 1
                            THEN StatusDefault
                            ELSE @.statusHistory[Len(@.statusHistory) - 1].status,
                 statusHistory |->
                    SubSeq(@.statusHistory, 1, Len(@.statusHistory) - 1)]]
    /\ UNCHANGED <<documents, now, accepted, generation, dashboard>>

\* await createNotification(..), then res.json(..) or the catch block
Notify(r) ==
    /\ req[r].pc = "notify"
    /\ notifications' = Append(notifications, notification(r))
    /\ \/ Responds(r, sent(req[r], "",
                               json(200, "", <<>>,
                                    req[r].project.status,
                                    req[r].project.statusHistory)))
       \/ Responds(r, caught(req[r], "createNotification"))
    /\ UNCHANGED <<projects, documents, now, accepted, generation, dashboard>>

----------------------------------------------------------------------------
(* uploadDocument *)

\* new Document({projectId, documentType, ...}).save()
UploadDocument ==
    /\ \E projectId \in Projects, documentType \in UploadTypes :
          documents' = documents \cup
              {[projectId |-> projectId, documentType |-> documentType]}
    /\ UNCHANGED <<projects, req, response, notifications, now,
                   accepted, generation, dashboard>>

----------------------------------------------------------------------------
(* generateDocument: the other handler that loads and saves a project.     *)
(* Its responses are not kept: a handler that answers is gone.             *)

\* await Project.findById(projectId).populate('documents').populate('owner')
GenFindById ==
    /\ gen.pc = "idle"
    /\ created < MaxGenerated
    /\ \E projectId \in ProjectIds :
          \/ /\ projectId \in Projects
             /\ gen' = [GenIdle EXCEPT !.pc = "create",
                                       !.projectId = projectId,
                                       !.project = findById(projectId)]
          \/ /\ projectId \notin Projects
             /\ gen' = [GenIdle EXCEPT !.pc = "answer",
                                       !.projectId = projectId]
    /\ UNCHANGED <<projects, documents, req, response, notifications, now,
                   accepted, created, generatedDocuments, dashboard>>

\* res.status(404).json(..), and every other way out that writes nothing:
\* no template, insufficient data, or the catch block
GenAnswer ==
    /\ gen.pc # "idle"
    /\ gen' = GenIdle
    /\ UNCHANGED <<projects, documents, req, response, notifications, now,
                   accepted, created, generatedDocuments, dashboard>>

\* the template is filled, the file is uploaded and
\* await newDocument.save() stores the GeneratedDocument
GenCreate ==
    /\ gen.pc = "create"
    /\ created' = created + 1
    /\ gen' = [gen EXCEPT !.pc = "save", !.newDocument = created + 1]
    /\ UNCHANGED <<projects, documents, req, response, notifications, now,
                   accepted, generatedDocuments, dashboard>>

\* variant: the save writes the whole project as the handler loaded it
GenSave_wholeDocument ==
    /\ gen.pc = "save"
    /\ generatedDocuments' =
          [generatedDocuments EXCEPT ![gen.projectId] =
              Append(@, gen.newDocument)]
    /\ projects' = [projects EXCEPT ![gen.projectId] =
                       [status |-> gen.project.status,
                        statusHistory |-> gen.project.statusHistory]]
    /\ gen' = GenIdle
    /\ UNCHANGED <<documents, req, response, notifications, now, accepted,
                   created, dashboard>>

\* project.generatedDocuments.push(newDocument._id); await project.save():
\* the one modified path is written, then res.json(newDocument)
GenSave ==
    /\ gen.pc = "save"
    /\ generatedDocuments' =
          [generatedDocuments EXCEPT ![gen.projectId] =
              Append(@, gen.newDocument)]
    /\ gen' = GenIdle
    /\ UNCHANGED <<projects, documents, req, response, notifications, now,
                   accepted, created, dashboard>>

----------------------------------------------------------------------------
(* Dashboard (client/src/pages/Dashboard.js): the page in the browser.     *)
(* The effect runs once after the first render.  The awaited promise is    *)
(* resolved by a timer and is never rejected, and no statement of the try  *)
(* block throws on the data it is given, so the catch block is not         *)
(* entered.  The three state setters are called in one continuation: a     *)
(* root that batches commits them in one render, a root that does not      *)
(* commits them one by one, in the order of the calls.                     *)

\* the placeholder data, with the fields the page computes with
mockProjects ==
    << [_id |-> "1", status |-> "in-progress", estimatedCredits |-> 5000],
       [_id |-> "2", status |-> "draft", estimatedCredits |-> 8000] >>

RECURSIVE sumCredits(_)
\* mockProjects.reduce((sum, p) => sum + (p.estimatedCredits || 0), 0)
sumCredits(list) ==
    IF list = <<>> THEN 0
    ELSE sumCredits(SubSeq(list, 1, Len(list) - 1))
            + list[Len(list)].estimatedCredits

\* the argument of setStats
statsOf(list) ==
    [totalProjects |-> Len(list),
     documentsGenerated |-> Len(list) * 2,
     creditsEstimated |-> sumCredits(list),
     projectsInProgress |->
        Len(SelectSeq(list, LAMBDA p : p.status = "in-progress"))]

\* useEffect(.., []): fetchDashboardData() runs up to its await
Effect ==
    /\ dashboard.pc = "rendered"
    /\ dashboard' = [dashboard EXCEPT !.pc = "await"]
    /\ UNCHANGED <<projects, documents, req, response, notifications, now,
                   accepted, generation>>

\* setTimeout(resolve, 500) fires and the try block goes on
Timeout ==
    /\ dashboard.pc = "await"
    /\ dashboard' = [dashboard EXCEPT !.pc = "try"]
    /\ UNCHANGED <<projects, documents, req, response, notifications, now,
                   accepted, generation>>

\* variant: setLoading(false) is called where setProjects should be
SetProjects_setsLoading ==
    /\ dashboard.pc = "try"
    /\ dashboard' = [dashboard EXCEPT !.pc = "setStats", !.loading = FALSE]
    /\ UNCHANGED <<projects, documents, req, response, notifications, now,
                   accepted, generation>>

\* setProjects(mockProjects), committed on its own
SetProjects ==
    /\ dashboard.pc = "try"
    /\ dashboard' = [dashboard EXCEPT !.pc = "setStats",
                                      !.projects = mockProjects]
    /\ UNCHANGED <<projects, documents, req, response, notifications, now,
                   accepted, generation>>

\* setStats({...}), committed on its own
SetStats ==
    /\ dashboard.pc = "setStats"
    /\ dashboard' = [dashboard EXCEPT !.pc = "finally",
                                      !.stats = statsOf(mockProjects)]
    /\ UNCHANGED <<projects, documents, req, response, notifications, now,
                   accepted, generation>>

\* finally { setLoading(false) }, committed on its own
SetLoading ==
    /\ dashboard.pc = "finally"
    /\ dashboard' = [dashboard EXCEPT !.pc = "done", !.loading = FALSE]
    /\ UNCHANGED <<projects, documents, req, response, notifications, now,
                   accepted, generation>>

\* the three updates committed in one render
Batched ==
    /\ dashboard.pc = "try"
    /\ dashboard' = [dashboard EXCEPT !.pc = "done",
                                      !.projects = mockProjects,
                                      !.stats = statsOf(mockProjects),
                                      !.loading = FALSE]
    /\ UNCHANGED <<projects, documents, req, response, notifications, now,
                   accepted, generation>>

----------------------------------------------------------------------------

Next ==
    \/ \E r \in Reqs : FindById(r)
    \/ \E r \in Reqs : Validate(r)
    \/ \E r \in Reqs : Save(r)
    \/ \E r \in Reqs : Notify(r)
    \/ UploadDocument

Spec == Init /\ [][Next]_vars

----------------------------------------------------------------------------
(* The workflow next to document generation: one transition handler, the   *)
(* generateDocument handler and the uploads.                               *)

InitGenerate ==
    /\ projects = [p \in {"p1"} |-> newProject]
    /\ documents = {}
    /\ req = [r \in {"r1"} |-> Idle]
    /\ response = Idle
    /\ notifications = <<>>
    /\ now = 0
    /\ accepted = 0
    /\ gen = GenIdle
    /\ created = 0
    /\ generatedDocuments = [p \in {"p1"} |-> <<>>]
    /\ dashboard = firstRender

NextGenerate ==
    \/ \E r \in Reqs : FindById(r)
    \/ \E r \in Reqs : Validate(r)
    \/ \E r \in Reqs : Save(r)
    \/ \E r \in Reqs : Notify(r)
    \/ UploadDocument
    \/ GenFindById
    \/ GenAnswer
    \/ GenCreate
    \/ GenSave

SpecGenerate == InitGenerate /\ [][NextGenerate]_vars

----------------------------------------------------------------------------
(* The workflow with two projects in the collection, each with its own     *)
(* owner, and two handlers in flight.  The documents have been uploaded,   *)
(* except the validation report of the second project.                     *)

InitTwo ==
    /\ projects = [p \in ProjectIds |-> newProject]
    /\ documents =
          {[projectId |-> p, documentType |-> t] :
              p \in ProjectIds, t \in UploadTypes}
            \ {[projectId |-> "p2", documentType |-> "validation-report"]}
    /\ req = [r \in Handlers |-> Idle]
    /\ response = Idle
    /\ notifications = <<>>
    /\ now = 0
    /\ accepted = 0
    /\ gen = GenIdle
    /\ created = 0
    /\ generatedDocuments = [p \in ProjectIds |-> <<>>]
    /\ dashboard = firstRender

SpecTwo == InitTwo /\ [][Next]_vars

----------------------------------------------------------------------------
(* The workflow with the progress the event loop gives a handler: the      *)
(* promise a handler awaits settles, by resolving or by rejecting, and the *)
(* handler is resumed.  Nothing makes a request arrive.                    *)

\* the project holds its design document and its supporting documentation
InitFair ==
    /\ projects = [p \in {"p1"} |-> newProject]
    /\ documents =
          {[projectId |-> "p1", documentType |-> t] :
              t \in {"project-design-document", "supporting-documentation"}}
    /\ req = [r \in Handlers |-> Idle]
    /\ response = Idle
    /\ notifications = <<>>
    /\ now = 0
    /\ accepted = 0
    /\ gen = GenIdle
    /\ created = 0
    /\ generatedDocuments = [p \in {"p1"} |-> <<>>]
    /\ dashboard = firstRender

\* the step a handler that is waiting takes when it is resumed
Resume(r) == Validate(r) \/ Save(r) \/ Notify(r)

Fairness == \A r \in Handlers : WF_vars(Resume(r))

SpecFair == InitFair /\ [][Next]_vars /\ Fairness

----------------------------------------------------------------------------
(* The Dashboard page next to the server, which it does not call: the      *)
(* workflow with one handler and the page from its first render on.  The   *)
(* timer fires and the continuation of the fetch runs.                     *)

InitDashboard ==
    /\ projects = [p \in {"p1"} |-> newProject]
    /\ documents = {}
    /\ req = [r \in {"r1"} |-> Idle]
    /\ response = Idle
    /\ notifications = <<>>
    /\ now = 0
    /\ accepted = 0
    /\ gen = GenIdle
    /\ created = 0
    /\ generatedDocuments = [p \in {"p1"} |-> <<>>]
    /\ dashboard = firstRender

\* a step of the page
Page ==
    \/ Effect
    \/ Timeout
    \/ SetProjects
    \/ SetStats
    \/ SetLoading
    \/ Batched

NextDashboard ==
    \/ \E r \in Reqs : FindById(r)
    \/ \E r \in Reqs : Validate(r)
    \/ \E r \in Reqs : Save(r)
    \/ \E r \in Reqs : Notify(r)
    \/ UploadDocument
    \/ Effect
    \/ Timeout
    \/ SetProjects
    \/ SetStats
    \/ SetLoading
    \/ Batched

SpecDashboard == InitDashboard /\ [][NextDashboard]_vars /\ WF_vars(Page)

----------------------------------------------------------------------------
(* The transition table of the specification (section 4.1), stated apart   *)
(* from workflowStates so that the properties compare the handler with it  *)

Reachable(s) ==
    CASE s = "draft" -> {"in-progress"}
      [] s = "in-progress" -> {"submitted", "draft"}
      [] s = "submitted" -> {"in-progress", "validated"}
      [] s = "validated" -> {"registered"}
      [] s = "registered" -> {"monitoring"}
      [] s = "monitoring" -> {"verification"}
      [] s = "verification" -> {"verified", "monitoring"}
      [] s = "verified" -> {"issuance", "monitoring"}
      [] s = "issuance" -> {"issued", "verified"}
      [] s = "issued" -> {"monitoring"}
      [] OTHER -> {}

Required(t) ==
    CASE t = "in-progress" -> {"project-design-document"}
      [] t = "submitted" ->
           {"project-design-document", "supporting-documentation"}
      [] t = "validated" -> {"validation-report"}
      [] t = "registered" -> {"registration-proof"}
      [] t = "monitoring" -> {"monitoring-report"}
      [] t = "verification" -> {"verification-report"}
      [] t = "verified" -> {"verification-statement"}
      [] t = "issuance" -> {"issuance-request"}
      [] t = "issued" -> {"issuance-confirmation"}
      [] OTHER -> {}

\* the document types on a loaded project
TypesOf(project) == {doc.documentType : doc \in project.documents}

\* the elements of an array
Elements(arr) == {arr[i] : i \in 1..Len(arr)}

\* the two expected failures and the success, as the caller sees them
IsInvalidTransition(res, s, t) ==
    /\ res.code = 400
    /\ res.message = "Cannot transition from " \o s \o " to " \o t

IsMissingDocuments(res) ==
    /\ res.code = 400
    /\ res.message = "Missing required documents for this transition"

\* handler r takes the step that runs the two checks
Validates(r) == req[r].pc = "found" /\ req'[r].pc # "found"

\* handler r sends its response in this step
Answers(r) == req[r].pc # "idle" /\ req'[r].pc = "idle"

\* the target of the request that handler r validates in this step
TargetOf(r) ==
    IF Answers(r) THEN response'.newStatus ELSE req'[r].newStatus

----------------------------------------------------------------------------
(* C1: a request whose target is not in the allowed-transition set of the  *)
(* status of the project it loaded is answered with the invalid-transition *)
(* outcome, and the step leaves every stored status and statusHistory as   *)
(* it was, whatever documents the project holds.                           *)

C1_InvalidTransitionRejected ==
    [][\A r \in Reqs :
          (Validates(r)
           /\ TargetOf(r) \notin Reachable(req[r].project.status))
          => /\ Answers(r)
             /\ IsInvalidTransition(response'.res, req[r].project.status,
                                    TargetOf(r))
             /\ projects' = projects]_vars

\* a project that holds documents has answered submitted -> draft with the
\* invalid-transition outcome
C1_Witness ==
    /\ IsInvalidTransition(response.res, "submitted", "draft")
    /\ projects["p1"].status = "submitted"
    /\ documents # {}

----------------------------------------------------------------------------
(* C2: a request whose target is allowed and for which at least one        *)
(* required document type has no document on the loaded project is         *)
(* answered with the missing-documents outcome; the reported list holds    *)
(* each missing type once and no type that is present; every stored status *)
(* and statusHistory is left as it was.                                    *)

C2_MissingDocumentsListed ==
    [][\A r \in Reqs :
          (Validates(r)
           /\ TargetOf(r) \in Reachable(req[r].project.status)
           /\ Required(TargetOf(r)) \ TypesOf(req[r].project) # {})
          => /\ Answers(r)
             /\ IsMissingDocuments(response'.res)
             /\ Elements(response'.res.missingDocuments) =
                    Required(TargetOf(r)) \ TypesOf(req[r].project)
             /\ Len(response'.res.missingDocuments) =
                    Cardinality(Elements(response'.res.missingDocuments))
             /\ projects' = projects]_vars

\* in-progress -> submitted was refused for the one type that is missing
\* while the other required type is present
C2_Witness ==
    /\ IsMissingDocuments(response.res)
    /\ response.res.missingDocuments = <<"supporting-documentation">>
    /\ response.newStatus = "submitted"
    /\ projects["p1"].status = "in-progress"

----------------------------------------------------------------------------
(* C3: when a request has passed the reachability check and the document   *)
(* check, then, unless the database driver fails, the save leaves the      *)
(* stored status equal to the target and the stored statusHistory equal to *)
(* the previous history with one record appended whose status is the       *)
(* target.                                                                 *)

\* handler r takes the step that ends await project.save()
Saves(r) == req[r].pc = "save" /\ req'[r].pc # "save"

\* the stored project p after the step is the one before it with one record
\* of status t appended and status t
AppliedTo(p, t) ==
    /\ projects'[p].status = t
    /\ Len(projects'[p].statusHistory) = Len(projects[p].statusHistory) + 1
    /\ SubSeq(projects'[p].statusHistory, 1, Len(projects[p].statusHistory))
          = projects[p].statusHistory
    /\ projects'[p].statusHistory[Len(projects'[p].statusHistory)].status = t

C3_AppliedWhenChecksPass ==
    [][\A r \in Reqs :
          (Saves(r) /\ ~(Answers(r) /\ response'.error = "save"))
          => AppliedTo(req[r].projectId, req[r].newStatus)]_vars

----------------------------------------------------------------------------
(* C4: in every reachable state the stored status of a project is the      *)
(* status of the last record of its statusHistory, or draft when the       *)
(* history is empty.                                                       *)

C4_StatusIsLastRecord ==
    \A p \in Projects :
        projects[p].status =
            IF projects[p].statusHistory = <<>>
            THEN "draft"
            ELSE projects[p].statusHistory[Len(projects[p].statusHistory)].status

\* two transitions were applied and a later request has failed
C4_Witness ==
    /\ Len(projects["p1"].statusHistory) = 2
    /\ response.res.code = 400

----------------------------------------------------------------------------
(* C5: no request is applied after having been validated against a project *)
(* that another request has changed since: when a save is written, the     *)
(* stored status and statusHistory are still the ones the handler loaded.  *)

\* the project as handler r loaded it, before its own push
LoadedHistory(r) ==
    SubSeq(req[r].project.statusHistory, 1,
           Len(req[r].project.statusHistory) - 1)

C5_NoStaleApply ==
    [][\A r \in Reqs :
          (req[r].pc = "save" /\ req'[r].pc = "notify")
          => /\ projects[req[r].projectId].statusHistory = LoadedHistory(r)
             /\ workflowStates[projects[req[r].projectId].status]
                   = req[r].currentState]_vars

----------------------------------------------------------------------------
(* C6: every step either leaves the stored status and statusHistory of a   *)
(* project both as they were, or appends one record to the history and     *)
(* sets the status to the status of that record; a save that fails leaves  *)
(* both as they were.                                                      *)

C6_StatusAndHistoryTogether ==
    [][/\ \A p \in Projects :
            \/ projects'[p] = projects[p]
            \/ /\ Len(projects'[p].statusHistory)
                     = Len(projects[p].statusHistory) + 1
               /\ AppliedTo(p, projects'[p].status)
       /\ \A r \in Reqs :
            (Saves(r) /\ Answers(r)) => projects' = projects]_vars

\* a save has failed after an earlier transition was stored
C6_Witness ==
    /\ response.error \in {"save", "ValidationError"}
    /\ projects["p1"].statusHistory # <<>>

----------------------------------------------------------------------------
(* C7: when createNotification fails after a transition was stored, the    *)
(* step leaves the stored projects as they were and the record the handler *)
(* pushed is still in the stored statusHistory.                            *)

\* handler r takes the step that ends await createNotification(..)
Notifies(r) == req[r].pc = "notify" /\ req'[r].pc # "notify"

C7_NoRollbackOnNotificationFailure ==
    [][\A r \in Reqs :
          (Notifies(r) /\ response'.error = "createNotification")
          => /\ projects' = projects
             /\ \E i \in 1..Len(projects'[req[r].projectId].statusHistory) :
                   projects'[req[r].projectId].statusHistory[i] =
                     req[r].project.statusHistory[
                        Len(req[r].project.statusHistory)]]_vars

\* the notification of a stored transition has failed and the project is
\* in the target state
C7_Witness ==
    /\ response.error = "createNotification"
    /\ response.newStatus = "in-progress"
    /\ projects["p1"].status = "in-progress"
    /\ Len(projects["p1"].statusHistory) = 1

----------------------------------------------------------------------------
(* C8: when createNotification fails after a transition was stored, the    *)
(* caller receives the successful result (status 200 with the new status   *)
(* and the updated statusHistory), never a failure.                        *)

C8_NotificationFailureIsWarning ==
    response.error = "createNotification"
    => /\ response.res.code = 200
       /\ response.res.status = response.newStatus
       /\ response.res.statusHistory # <<>>

----------------------------------------------------------------------------
(* C9: for every project, the events handed to createNotification for it,  *)
(* together with the handlers that have stored a transition of it and are  *)
(* about to notify, are as many as the records of its statusHistory: one   *)
(* event per applied transition, emitted after the update, and none for a  *)
(* request that was refused, failed or found no project.                   *)

EventsOf(p) == SelectSeq(notifications, LAMBDA e : e.projectId = p)

AboutToNotify(p) == {r \in Reqs : req[r].pc = "notify" /\ req[r].projectId = p}

C9_OneNotificationPerAppliedTransition ==
    /\ \A p \in Projects :
          Len(EventsOf(p)) + Cardinality(AboutToNotify(p))
            = Len(projects[p].statusHistory)
    /\ \A i \in 1..Len(notifications) : notifications[i].projectId \in Projects

\* two transitions were applied and notified, and requests were refused,
\* failed to save or found no project
C9_Witness ==
    /\ Len(notifications) = 2
    /\ accepted = MaxRequests
    /\ \A r \in Reqs : req[r].pc = "idle"
    /\ response.res.code # 200

----------------------------------------------------------------------------
(* C10: the event handed to createNotification carries the identifier of   *)
(* the project, the state the project held before the transition (one of   *)
(* the ten states) as previousStatus, the target as newStatus, and the     *)
(* identifier of the user who requested the transition.                    *)

C10_NotificationPayload ==
    [][\A r \in Reqs :
          Notifies(r)
          => LET e == notifications'[Len(notifications')]
             IN  /\ e.projectId = req[r].projectId
                 /\ e.data.newStatus = req[r].newStatus
                 /\ e.data.previousStatus \in States
                 /\ workflowStates[e.data.previousStatus] = req[r].currentState
                 /\ e.userId = req[r].user]_vars

----------------------------------------------------------------------------
(* C11: after every step the timestamps of the stored statusHistory of     *)
(* every project are non-decreasing from the first record to the last,     *)
(* and the statusHistory the project had before the step is a prefix of    *)
(* the one it has after it: no record is removed, changed or reordered.    *)

\* the timestamps of a statusHistory never go back
NonDecreasing(statusHistory) ==
    \A i \in 1..Len(statusHistory) : \A j \in i..Len(statusHistory) :
        statusHistory[i].timestamp <= statusHistory[j].timestamp

IsPrefix(old, new) ==
    /\ Len(old) <= Len(new)
    /\ SubSeq(new, 1, Len(old)) = old

C11_HistoryAppendOnlyAndOrdered ==
    [][\A p \in Projects :
          /\ NonDecreasing(projects'[p].statusHistory)
          /\ IsPrefix(projects[p].statusHistory,
                      projects'[p].statusHistory)]_vars

----------------------------------------------------------------------------
(* C12: a request whose target t is in the allowed-transition set of the   *)
(* status the handler loaded succeeds exactly when every document type     *)
(* required by t is among the documents the handler loaded, whatever the   *)
(* types required by the current status: it passes the document check      *)
(* exactly then, and having passed it the transition is stored unless the  *)
(* database driver fails.                                                  *)

C12_SucceedsIffTargetDocumentsPresent ==
    [][\A r \in Reqs :
          /\ (Validates(r)
              /\ TargetOf(r) \in Reachable(req[r].project.status))
             => (Required(TargetOf(r)) \subseteq TypesOf(req[r].project)
                 <=> ~Answers(r))
          /\ (Saves(r) /\ Answers(r)) => response'.error = "save"]_vars

----------------------------------------------------------------------------
(* C13: no state is in its own allowed-transition set, and a request whose *)
(* target is the status of the project the handler loaded is answered with *)
(* the invalid-transition outcome in the step that checks it, which leaves *)
(* every stored status, statusHistory and document and the notifications   *)
(* as they were.                                                           *)

C13_SelfTransitionRejected ==
    [][\A r \in Reqs :
          /\ \A s \in States :
                ~includes(workflowStates[s].allowedTransitions, s)
          /\ (Validates(r) /\ TargetOf(r) = req[r].project.status)
             => /\ Answers(r)
                /\ IsInvalidTransition(response'.res, TargetOf(r),
                                       TargetOf(r))
                /\ projects' = projects
                /\ documents' = documents
                /\ notifications' = notifications]_vars

\* a project that holds the documents of in-progress has been asked to go
\* from in-progress to in-progress and is still there
C13_Witness ==
    /\ response.res.code = 400
    /\ response.res.message =
          "Cannot transition from in-progress to in-progress"
    /\ projects["p1"].status = "in-progress"
    /\ \E doc \in documents : doc.documentType = "project-design-document"

----------------------------------------------------------------------------
(* C14: the allowed-transition set the handler uses for each of the ten    *)
(* states is exactly the set of the table; a request is answered with the  *)
(* invalid-transition outcome exactly when its target is outside the set   *)
(* of the status the handler loaded, and a transition is stored only       *)
(* along an edge of the table from that status.                            *)

\* the state of the table whose entry the handler holds as currentState
StateOf(currentState) ==
    CHOOSE s \in States : workflowStates[s] = currentState

C14_EdgesAreTheTable ==
    [][/\ \A s \in States :
            Elements(workflowStates[s].allowedTransitions) = Reachable(s)
       /\ \A r \in Reqs :
            /\ Validates(r)
               => ((/\ Answers(r)
                    /\ IsInvalidTransition(response'.res,
                           req[r].project.status, TargetOf(r)))
                   <=> TargetOf(r) \notin Reachable(req[r].project.status))
            /\ (req[r].pc = "save" /\ req'[r].pc = "notify")
               => /\ req[r].newStatus
                       \in Reachable(StateOf(req[r].currentState))
                  /\ projects'[req[r].projectId].status
                        = req[r].newStatus]_vars

\* the second edge of in-progress was taken: a project that had been
\* submitted went back from in-progress to draft
C14_Witness ==
    /\ projects["p1"].status = "draft"
    /\ Len(projects["p1"].statusHistory) = 3
    /\ projects["p1"].statusHistory[2].status = "in-progress"
    /\ response.res.code = 200
    /\ response.newStatus = "draft"

----------------------------------------------------------------------------
(* C15: in every reachable state the stored status of every project is one *)
(* of the ten workflow states, and the schema accepts each of the ten as a *)
(* stored status: no save of a transition that passed both checks has been *)
(* rejected by the validation of the status field.                         *)

C15_TenStatesStorable ==
    /\ \A p \in Projects : projects[p].status \in States
    /\ response.error # "ValidationError"

----------------------------------------------------------------------------
(* C18: no step of a transition request, whether the request is applied,   *)
(* refused, fails or finds no project, adds, removes or modifies a         *)
(* document: the handler only reads the documents of the project.          *)

\* handler r takes a step
StepOf(r) == req'[r] # req[r]

\* a request arrives; one that finds no project, or whose findById throws,
\* is answered in the same step
Arrives == accepted' # accepted

\* a step of a transition request
RequestStep == Arrives \/ \E r \in Reqs : StepOf(r)

C18_RequestLeavesDocuments ==
    [][RequestStep => documents' = documents]_vars

\* with documents uploaded, one request was applied and notified, another
\* refused for a missing document and a third refused as invalid
C18_Witness ==
    /\ Cardinality(documents) = 2
    /\ Len(notifications) = 1
    /\ accepted = MaxRequests
    /\ \A r \in Reqs : req[r].pc = "idle"
    /\ response.res.code = 400

----------------------------------------------------------------------------
(* C19: every step of a transition request on one project, whatever its    *)
(* outcome and whatever requests on other projects are in flight, leaves   *)
(* the stored status and statusHistory and the documents of every other    *)
(* project as they were.                                                   *)

\* the project of the request that takes the step
StepProjects ==
    {req[r].projectId : r \in {h \in Reqs : StepOf(h) /\ req[h].pc # "idle"}}
      \cup {req'[r].projectId :
                r \in {h \in Reqs : StepOf(h) /\ req[h].pc = "idle"}}
      \cup (IF Arrives /\ req' = req THEN {response'.projectId} ELSE {})

DocumentsOf(p) == {doc \in documents : doc.projectId = p}

C19_OtherProjectsUntouched ==
    [][RequestStep
       => /\ Cardinality(StepProjects) = 1
          /\ \A p \in Projects \ StepProjects :
                /\ projects'[p] = projects[p]
                /\ DocumentsOf(p)' = DocumentsOf(p)]_vars

\* both projects have moved, each by its own request, to different states
\* while the other's request was in flight
C19_Witness ==
    /\ projects["p1"].status = "submitted"
    /\ projects["p2"].status = "in-progress"
    /\ Len(projects["p1"].statusHistory) = 2
    /\ Len(projects["p2"].statusHistory) = 1
    /\ \E r \in Reqs : req[r].pc = "notify" /\ req[r].projectId = "p2"

----------------------------------------------------------------------------
(* C20: a project is created with status draft and an empty statusHistory  *)
(* and keeps both until the first transition request arrives; the stored   *)
(* status and statusHistory of a project change only in the step that      *)
(* stores an applied transition request for it: the steps of uploads and   *)
(* of document generation, which loads and saves the project too, leave    *)
(* both as they were.                                                      *)

\* a step of generateDocument or of uploadDocument
OtherOperation ==
    \/ gen' # gen
    \/ created' # created
    \/ generatedDocuments' # generatedDocuments
    \/ documents' # documents

C20_StatusChangesOnlyByTransition ==
    [][/\ accepted' = 0 => \A p \in Projects : projects'[p] = newProject
       /\ OtherOperation => projects' = projects
       /\ \A p \in Projects :
            projects'[p] # projects[p]
            => \E r \in Reqs : /\ req[r].pc = "save"
                               /\ req'[r].pc = "notify"
                               /\ req[r].projectId = p
                               /\ AppliedTo(p, req[r].newStatus)]_vars

\* a document was generated for a project and linked to it after a
\* transition of the project had been stored
C20_Witness ==
    /\ generatedDocuments["p1"] = <<1>>
    /\ gen.pc = "idle"
    /\ projects["p1"].status = "in-progress"
    /\ Len(projects["p1"].statusHistory) = 1
    /\ response.res.code = 200

----------------------------------------------------------------------------
(* C21: the reachability check comes first: a request whose target is not  *)
(* in the allowed-transition set of the status the handler loaded, and     *)
(* whose target requires a document type the project does not hold, is     *)
(* answered with the invalid-transition outcome, with no list of missing   *)
(* documents, and not with the missing-documents outcome.                  *)

C21_ReachabilityBeforeDocuments ==
    [][\A r \in Reqs :
          (/\ Validates(r)
           /\ TargetOf(r) \notin Reachable(req[r].project.status)
           /\ ~(Required(TargetOf(r)) \subseteq TypesOf(req[r].project)))
          => /\ Answers(r)
             /\ IsInvalidTransition(response'.res, req[r].project.status,
                                    TargetOf(r))
             /\ ~IsMissingDocuments(response'.res)
             /\ response'.res.missingDocuments = <<>>]_vars

\* a draft project without a validation report was asked to become
\* validated and the answer names the transition
C21_Witness ==
    /\ response.res.message = "Cannot transition from draft to validated"
    /\ projects["p1"].status = "draft"
    /\ \A doc \in documents : doc.documentType # "validation-report"

----------------------------------------------------------------------------
(* C22: a request whose target is not one of the ten states is answered    *)
(* with the invalid-transition outcome in the step that checks it, which   *)
(* leaves every stored status and statusHistory as it was, whatever the    *)
(* status of the project.                                                  *)

C22_UnknownTargetRejected ==
    [][\A r \in Reqs :
          (Validates(r) /\ TargetOf(r) \notin States)
          => /\ Answers(r)
             /\ response'.error = ""
             /\ IsInvalidTransition(response'.res, req[r].project.status,
                                    TargetOf(r))
             /\ projects' = projects]_vars

\* a submitted project that holds all its documents was asked for a state
\* that does not exist
C22_Witness ==
    /\ response.res.code = 400
    /\ response.res.message = "Cannot transition from submitted to archived"
    /\ projects["p1"].status = "submitted"
    /\ Cardinality(documents) = Cardinality(UploadTypes)

----------------------------------------------------------------------------
(* C23: when a transition has been stored and its handler is about to      *)
(* notify, the stored statusHistory of the project holds a record whose    *)
(* status is the target of the request, whose updatedBy is the user who    *)
(* sent the request, whose comment is the comment of the request and whose *)
(* timestamp is a time of the clock between the first arrival and now;     *)
(* every stored record has a workflow state, a requesting user, a request  *)
(* comment and such a timestamp.                                           *)

StoredRecords(p) ==
    {projects[p].statusHistory[i] : i \in 1..Len(projects[p].statusHistory)}

C23_RecordOfTransition ==
    /\ \A r \in Reqs :
          req[r].pc = "notify"
          => \E record \in StoredRecords(req[r].projectId) :
                /\ record.status = req[r].newStatus
                /\ record.updatedBy = req[r].user
                /\ record.comment = req[r].comment
                /\ record.timestamp \in 1..now
    /\ \A p \in Projects : \A record \in StoredRecords(p) :
          /\ record.status \in States
          /\ record.updatedBy \in Users
          /\ record.comment \in Comments
          /\ record.timestamp \in 1..now

\* a transition to submitted was stored at a later time than the one
\* before it and its handler has not answered yet
C23_Witness ==
    \E r \in Reqs :
        /\ req[r].pc = "notify"
        /\ req[r].newStatus = "submitted"
        /\ Len(projects["p1"].statusHistory) = 2
        /\ projects["p1"].statusHistory[2].status = "submitted"
        /\ projects["p1"].statusHistory[2].timestamp = 2
        /\ projects["p1"].statusHistory[1].timestamp = 1

----------------------------------------------------------------------------
(* C24: a request for a project identifier that is not in the collection   *)
(* is answered, unless findById itself throws, with 404 'Project not       *)
(* found' in the step in which it arrives: no handler ever runs a check    *)
(* for such an identifier, and the step leaves every stored status and     *)
(* statusHistory as it was and hands no event to createNotification.       *)

C24_UnknownProjectNotFound ==
    [][/\ (/\ Arrives
           /\ req' = req
           /\ response'.projectId \notin Projects
           /\ response'.error # "findById")
          => /\ response'.res.code = 404
             /\ response'.res.message = "Project not found"
             /\ response'.newStatus = ""
             /\ projects' = projects
             /\ notifications' = notifications
       /\ \A r \in Reqs :
             req'[r].pc # "idle" => req'[r].projectId \in Projects]_vars

\* after a transition was stored and notified, a request for an unknown
\* project was answered with not found
C24_Witness ==
    /\ response.res.code = 404
    /\ response.projectId = "p2"
    /\ projects["p1"].status = "in-progress"
    /\ Len(notifications) = 1

----------------------------------------------------------------------------
(* C25: every request that has entered a handler is eventually answered,   *)
(* and the step that answers it sends one response, which is one of the    *)
(* five outcomes, and ends the handler; a request answered as applied has  *)
(* its record in the stored statusHistory, and the step that answers with  *)
(* any other outcome than a failed notification writes nothing, so that no *)
(* response leaves a transition half applied.                              *)

\* the outcome a response tells the caller
Outcome(answer) ==
    CASE answer.res.code = 200 -> "applied"
      [] answer.res.code = 404 -> "not found"
      [] IsMissingDocuments(answer.res) -> "missing documents"
      [] answer.res.code = 400 -> "invalid transition"
      [] answer.res.code = 500 -> "error"
      [] OTHER -> "none"

C25_EveryRequestReturnsOnce ==
    /\ \A r \in Handlers : (req[r].pc # "idle") ~> (req[r].pc = "idle")
    /\ [][\A r \in Reqs :
            Answers(r)
            => /\ response'.pc = "done"
               /\ response'.projectId = req[r].projectId
               /\ Outcome(response') \in
                     {"applied", "not found", "missing documents",
                      "invalid transition", "error"}
               /\ req'[r] = Idle
               /\ projects' = projects
               /\ Outcome(response') = "applied"
                  => /\ req[r].pc = "notify"
                     /\ req[r].project.statusHistory[
                           Len(req[r].project.statusHistory)]
                          \in StoredRecords(req[r].projectId)
                     /\ C4_StatusIsLastRecord]_vars

\* all requests of the run have been answered, one of them as applied and
\* the last one with the error of a failed save
C25_Witness ==
    /\ accepted = MaxRequests
    /\ \A r \in Reqs : req[r].pc = "idle"
    /\ Len(projects["p1"].statusHistory) = 1
    /\ Len(notifications) = 1
    /\ response.error = "save"

----------------------------------------------------------------------------
(* C27: with one transition handler, so that requests are applied one at a *)
(* time, the stored statusHistory of every project is a path of the        *)
(* transition table that starts at draft: its first record, if any, has    *)
(* status in-progress, and the status of each later record is in the       *)
(* allowed-transition set of the status of the record before it.           *)

IsPathFromDraft(statusHistory) ==
    /\ statusHistory # <<>> => statusHistory[1].status = "in-progress"
    /\ \A i \in 2..Len(statusHistory) :
          statusHistory[i].status \in Reachable(statusHistory[i - 1].status)

C27_HistoryIsPath ==
    /\ Cardinality(Reqs) = 1
    /\ \A p \in Projects : IsPathFromDraft(projects[p].statusHistory)

\* a project went to submitted and back: three records along the table
C27_Witness ==
    /\ Len(projects["p1"].statusHistory) = 3
    /\ projects["p1"].statusHistory[2].status = "submitted"
    /\ projects["p1"].statusHistory[3].status = "in-progress"
    /\ projects["p1"].status = "in-progress"

----------------------------------------------------------------------------
(* C28: documents are only ever added (uploadDocument is the one operation *)
(* on them), and in every reachable state every document type required to  *)
(* enter the stored status of a project is among the documents of that     *)
(* project.                                                                *)

C28_DocumentsOfStatusPresent ==
    \A p \in Projects :
        Required(projects[p].status)
           \subseteq {doc.documentType : doc \in DocumentsOf(p)}

\* a project has entered submitted, which requires two types, and no
\* other document was uploaded
C28_Witness ==
    /\ projects["p1"].status = "submitted"
    /\ {doc.documentType : doc \in DocumentsOf("p1")}
          = {"project-design-document", "supporting-documentation"}

----------------------------------------------------------------------------
(* C31: the Dashboard page starts with loading true and keeps it true      *)
(* while its fetch is running; the fetch finishes, and from then on        *)
(* loading is false for good.  Whenever loading is false, either no error  *)
(* is set and the project list is the fetched one, or the error is set     *)
(* and the project list is empty: on success the list is there no later    *)
(* than loading turns false.                                               *)

C31_LoadingEndsWithTheFetch ==
    /\ dashboard.loading = TRUE
    /\ [](dashboard.pc \in {"rendered", "await"}
            => /\ dashboard.loading = TRUE
               /\ dashboard.projects = <<>>
               /\ dashboard.error = null)
    /\ <>[](dashboard.loading = FALSE)
    /\ [][dashboard.loading = FALSE => dashboard'.loading = FALSE]_vars
    /\ [](dashboard.loading = FALSE
            => \/ /\ dashboard.error = null
                  /\ dashboard.projects = mockProjects
               \/ /\ dashboard.error = "Failed to load dashboard."
                  /\ dashboard.projects = <<>>)

\* the list was committed on its own render while the skeleton was still
\* shown, between the end of the timer and the end of the fetch
C31_Witness ==
    /\ dashboard.pc = "finally"
    /\ dashboard.loading = TRUE
    /\ dashboard.projects = mockProjects
    /\ dashboard.stats.creditsEstimated = 13000
    /\ dashboard.stats.projectsInProgress = 1

====
